---- MODULE Spec2Model ----
(***************************************************************************)
(* A model of the media post-processing pipeline of podcast-ai-cohost:     *)
(* the Celery tasks of backend/app/celery_app.py (transcode, then the two  *)
(* fan-out branches: background removal and transcription), the Segment    *)
(* updates of app/lib/video.py and app/lib/audio.py, the compositor        *)
(* remove_background_from_video, and the routes delete_segment and         *)
(* upload_video that touch the same rows and files.                        *)
(*                                                                         *)
(* A path is a sequence of string tokens: its directory components, then   *)
(* the tokens of its file name.  The segments table is a function from the *)
(* ids of the rows that exist to the rows.  The file system is a function  *)
(* from the paths that exist to what each file holds.                      *)
(***************************************************************************)
EXTENDS Integers, Sequences, FiniteSets, TLC

VARIABLES
    segments,     \* the segments table: id -> row, for the rows that exist
    files,        \* the file system: path -> content, for the files that exist
    nextJob,      \* the next MediaJob to be submitted (its number is its nonce)
    jobs,         \* per MediaJob: what SubmitMediaJob was given and generated
    conv,         \* per MediaJob: convert_video_to_mp4_task, its state and ffmpeg's exit code
    tr,           \* per MediaJob: transcribe_video_task, its position and locals
    bg,           \* per MediaJob: remove_background_task, its position and locals
    calls,        \* upload_video: the calls served so far, oldest first
    frame         \* the frame loop: one channel of the pixel composited last

vars == <<segments, files, nextJob, jobs, conv, tr, bg, calls, frame>>

pipelineVars == <<nextJob, jobs, conv, tr, bg>>

----------------------------------------------------------------------------
(* Bounds of the model. *)

MaxJobs == 1

MaxFrames == 2

MaxUploads == 2

\* the MediaJobs the model has room for: those of the pipeline (MaxJobs) and
\* one re-upload on top
Jobs == 1 .. MaxJobs + 1

----------------------------------------------------------------------------
(* Values. *)

\* Python's None for a nullable String/Text column (a path or a text)
None == <<>>

\* Python's None for the nullable Integer column duration
NoDuration == -1

SegmentIds == {1, 2}

\* the episode each initial segment belongs to
EpisodeOf(sid) == sid

\* no frame was composited yet
NoFrame == [alpha |-> -1, foreground |-> -1, background |-> -1, composite |-> -1]

\* settings.EPISODES_DIR: DATA_DIR / "episodes"
EPISODES_DIR == <<"data", "episodes">>

\* os.path.join(settings.EPISODES_DIR, str(episode_id), "segments")
SegmentsDir(episode_id) == EPISODES_DIR \o <<ToString(episode_id), "segments">>

\* a row as create_segment leaves it, before any media was attached
InitialRow(sid) ==
    [ episode_id     |-> EpisodeOf(sid),
      segment_type   |-> IF sid = 1 THEN "human" ELSE "bot",
      order_index    |-> sid,
      text_content   |-> <<"typed text">>,
      audio_path     |-> None,
      raw_audio_path |-> None,
      video_path     |-> None,
      raw_video_path |-> None,
      duration       |-> NoDuration ]

\* a query that filters on the segment id alone
QuerySegmentAnyEpisode(table, episode_id, segment_id) ==
    IF segment_id \in DOMAIN table THEN <<table[segment_id]>> ELSE <<>>

\* session.query(Segment).filter(Segment.episode_id == e, Segment.id == s).first()
QuerySegment(table, episode_id, segment_id) ==
    IF segment_id \in DOMAIN table /\ table[segment_id].episode_id = episode_id
    THEN <<table[segment_id]>>
    ELSE <<>>

\* the file system with `path` holding `content` (created or overwritten)
WriteFile(fs, path, content) ==
    [p \in (DOMAIN fs) \cup {path} |-> IF p = path THEN content ELSE fs[p]]

\* os.remove(path)
RemoveFile(fs, path) == [p \in (DOMAIN fs) \ {path} |-> fs[p]]

\* what a file holds: the kind of data, who wrote it (<<"job", j>> or
\* <<"call", k>>) and, for a video, its frames in presentation order
Content(kind, by, frames) == [kind |-> kind, by |-> by, frames |-> frames]

----------------------------------------------------------------------------
(* The Transcoder: convert_video_to_mp4_task and the ffmpeg it runs. *)

EncoderOutcomes == {"ok", "fails_early", "fails_late"}

\* `ffmpeg -i input ... [-y] output`: the exit code and the files it leaves.
\* A missing input fails and writes nothing; without -y an existing output is
\* not overwritten and the run fails; an encoder failure leaves nothing or a
\* partial output; success leaves one complete file at `output`.
Ffmpeg(fs, input, output, overwrite, encoder, by) ==
    IF input \notin DOMAIN fs
    THEN [returncode |-> 1, files |-> fs]
    ELSE IF output \in DOMAIN fs /\ ~overwrite
    THEN [returncode |-> 1, files |-> fs]
    ELSE IF encoder = "fails_early"
    THEN [returncode |-> 1, files |-> fs]
    ELSE IF encoder = "fails_late"
    THEN [returncode |-> 1, files |-> WriteFile(fs, output, Content("partial", by, <<>>))]
    ELSE [returncode |-> 0, files |-> WriteFile(fs, output, Content("mp4", by, <<>>))]

\* the command line of convert_video_to_mp4_task carries -y
ConvertOverwrites == TRUE

\* a transcode task that prints ffmpeg's failure and returns
ConvertRaisesNever(returncode) == FALSE

\* a transcode task that raises only when a signal killed ffmpeg
ConvertRaisesOnSignal(returncode) == returncode < 0

\* convert_video_to_mp4_task raises exactly when ffmpeg's exit code is not 0
ConvertRaises(returncode) == returncode # 0

\* The chain SubmitMediaJob built: the two fan-out tasks are submitted when the
\* transcode task returned, and never when it raised.
ChainProceeds(raised) == ~raised

\* File names: segment id plus the per-upload nonce, fixed .mp4 extension; the
\* background-removed output replaces the extension by a marker before .mp4.
Nonce(j) == <<"nonce", ToString(j)>>

RawPath(episode_id, segment_id, j) ==
    SegmentsDir(episode_id) \o <<ToString(segment_id)>> \o Nonce(j) \o <<"raw", ".webm">>

TranscodedPath(episode_id, segment_id, j) ==
    SegmentsDir(episode_id) \o <<ToString(segment_id)>> \o Nonce(j) \o <<".mp4">>

BgRemovedPath(transcoded) ==
    SubSeq(transcoded, 1, Len(transcoded) - 1) \o <<"_bg_removed", ".mp4">>

NoJob == [episode_id |-> 0, segment_id |-> 0, input_path |-> None,
          output_path |-> None, bg_output_path |-> None, row_at_submit |-> <<>>]

ConvIdle == [state |-> "none", returncode |-> -1]

\* SubmitMediaJob(inputPath, episodeID, segmentID): the upload layer accepted a
\* raw video for an existing segment; the job gets a fresh nonce and its
\* transcode task is queued; row_at_submit records the row as it was then.  The raw upload may fail to reach the disk.  At
\* most `limit` jobs are submitted.
SubmitMediaJob(limit, episode_id, segment_id, saved) ==
    /\ nextJob <= limit
    /\ QuerySegment(segments, episode_id, segment_id) # <<>>
    /\ LET j == nextJob
           input == RawPath(episode_id, segment_id, j)
           output == TranscodedPath(episode_id, segment_id, j)
       IN /\ jobs' = [jobs EXCEPT ![j] =
                        [episode_id |-> episode_id, segment_id |-> segment_id,
                         input_path |-> input, output_path |-> output,
                         bg_output_path |-> BgRemovedPath(output),
                         row_at_submit |-> QuerySegment(segments, episode_id, segment_id)]]
          /\ files' = IF saved
                      THEN WriteFile(files, input, Content("raw", <<"job", j>>, <<>>))
                      ELSE files
          /\ conv' = [conv EXCEPT ![j] = [state |-> "queued", returncode |-> -1]]
          /\ nextJob' = nextJob + 1
    /\ UNCHANGED <<segments, tr, bg, calls, frame>>

\* a worker picks the transcode task up and starts ffmpeg
ConvertStart(j) ==
    /\ conv[j].state = "queued"
    /\ conv' = [conv EXCEPT ![j].state = "running"]
    /\ UNCHANGED <<segments, files, nextJob, jobs, tr, bg, calls, frame>>

\* ffmpeg exits: the task returns or raises, and on its return the chain
\* submits both fan-out tasks
ConvertFinish(j, encoder) ==
    /\ conv[j].state = "running"
    /\ LET run == Ffmpeg(files, jobs[j].input_path, jobs[j].output_path,
                         ConvertOverwrites, encoder, <<"job", j>>)
           raised == ConvertRaises(run.returncode)
           fanout == ChainProceeds(raised)
       IN /\ files' = run.files
          /\ conv' = [conv EXCEPT ![j] =
                        [state |-> IF raised THEN "failed" ELSE "succeeded",
                         returncode |-> run.returncode]]
          /\ tr' = IF fanout THEN [tr EXCEPT ![j].pc = "queued"] ELSE tr
          /\ bg' = IF fanout THEN [bg EXCEPT ![j].pc = "queued"] ELSE bg
    /\ UNCHANGED <<segments, nextJob, jobs, calls, frame>>

----------------------------------------------------------------------------
(* The Transcription Client: transcribe_audio, transcribe_video_task and   *)
(* update_segment_text_content.                                            *)

\* Python truthiness of an Optional[str]: None and "" are falsy
Truthy(text) == text # None /\ text # <<"">>

\* what the recording of job j says
Spoken(j) == <<"spoken", ToString(j)>>

\* what one request to the speech-to-text service can come back with: an
\* exception, or a transcript with a status and a text
ServiceReplies(j) ==
    { [raises |-> TRUE,  status |-> "none",      text |-> None],
      [raises |-> FALSE, status |-> "error",     text |-> None],
      [raises |-> FALSE, status |-> "completed", text |-> <<"">>],
      [raises |-> FALSE, status |-> "completed", text |-> Spoken(j)] }

\* a client that takes any transcript the service hands back for a result
transcribe_audio_any_status(key_configured, reply) ==
    IF ~key_configured
    THEN [success |-> FALSE, message |-> "AssemblyAI API key not configured",
          text |-> None, status |-> "none", requests |-> 0]
    ELSE IF reply.raises
    THEN [success |-> FALSE, message |-> "Error during transcription",
          text |-> None, status |-> "none", requests |-> 1]
    ELSE [success |-> TRUE, message |-> "Transcription completed successfully",
          text |-> reply.text, status |-> reply.status, requests |-> 1]

\* a client that sends the request a second time when the first one raised
transcribe_audio_retrying(key_configured, reply) ==
    IF ~key_configured
    THEN [success |-> FALSE, message |-> "AssemblyAI API key not configured",
          text |-> None, status |-> "none", requests |-> 0]
    ELSE IF reply.raises
    THEN [success |-> FALSE, message |-> "Error during transcription",
          text |-> None, status |-> "none", requests |-> 2]
    ELSE IF reply.status = "completed"
    THEN [success |-> TRUE, message |-> "Transcription completed successfully",
          text |-> reply.text, status |-> reply.status, requests |-> 1]
    ELSE [success |-> FALSE, message |-> "Transcription failed with status",
          text |-> None, status |-> reply.status, requests |-> 1]

\* transcribe_audio: (success, message, transcription), and the number of
\* requests it made to the service
transcribe_audio(key_configured, reply) ==
    IF ~key_configured
    THEN [success |-> FALSE, message |-> "AssemblyAI API key not configured",
          text |-> None, status |-> "none", requests |-> 0]
    ELSE IF reply.raises
    THEN [success |-> FALSE, message |-> "Error during transcription",
          text |-> None, status |-> "none", requests |-> 1]
    ELSE IF reply.status = "completed"
    THEN [success |-> TRUE, message |-> "Transcription completed successfully",
          text |-> reply.text, status |-> reply.status, requests |-> 1]
    ELSE [success |-> FALSE, message |-> "Transcription failed with status",
          text |-> None, status |-> reply.status, requests |-> 1]

\* the reply to a request for the file at `path`: the client cannot send a
\* file that does not exist, and raises
ReplyFor(fs, path, reply) ==
    IF path \in DOMAIN fs THEN reply
    ELSE [raises |-> TRUE, status |-> "none", text |-> None]

\* a transcription task that stores whatever transcribe_audio returned
TranscribeTaskUpdatesAlways(result) == TRUE

\* transcribe_video_task goes on to update_segment_text_content
TranscribeTaskUpdates(result) == result.success /\ Truthy(result.text)

\* the else branch of transcribe_video_task prints the message and leaves the
\* table and the files as they are
TranscribeTaskElse(table, fs) == [table |-> table, files |-> fs]

\* a commit that writes the row back as a fresh Segment holding only `field`
CommitFieldFreshRow(table, segment_id, field, loaded, value) ==
    IF segment_id \in DOMAIN table
    THEN [table |-> [table EXCEPT ![segment_id] =
                       [[@ EXCEPT !.text_content = None, !.video_path = None]
                           EXCEPT ![field] = value]],
          raised |-> FALSE]
    ELSE [table |-> table, raised |-> TRUE]

\* The commit of a session that loaded the row `segment_id`, read `loaded` in
\* column `field` and was assigned `value`: the ORM emits
\* UPDATE segments SET field = value WHERE id = segment_id only when the
\* attribute changed, and raises StaleDataError when that UPDATE matches no row.
CommitField(table, segment_id, field, loaded, value) ==
    IF loaded = value
    THEN [table |-> table, raised |-> FALSE]
    ELSE IF segment_id \in DOMAIN table
    THEN [table |-> [table EXCEPT ![segment_id][field] = value], raised |-> FALSE]
    ELSE [table |-> table, raised |-> TRUE]

\* session = SessionLocal(); try: ... finally: session.close(): the session of
\* an update function when the function is left, by its return (the row was
\* not found, or the commit went through) or by the exception of the commit
SessionOnExit(raised) == "closed"

\* update_segment_text_content, after its query found the row
update_segment_text_content(table, segment_id, loaded, text) ==
    CommitField(table, segment_id, "text_content", loaded, text)

TrIdle == [pc |-> "none", success |-> FALSE, message |-> "", text |-> None,
           status |-> "none", requests |-> 0, loaded |-> None, logged |-> FALSE, raised |-> FALSE,
           session |-> "none"]

\* transcribe_video_task up to the call of update_segment_text_content, on a
\* worker whose settings.ASSEMBLYAI_API_KEY is configured or not
TrRun(j, key_configured, reply) ==
    /\ tr[j].pc = "queued"
    /\ LET r == transcribe_audio(key_configured,
                                 ReplyFor(files, jobs[j].output_path, reply))
           updates == TranscribeTaskUpdates(r)
           after == IF updates THEN [table |-> segments, files |-> files]
                    ELSE TranscribeTaskElse(segments, files)
       IN /\ tr' = [tr EXCEPT ![j] =
                      [@ EXCEPT !.pc = IF updates THEN "lookup" ELSE "done",
                                !.success = r.success,
                                !.message = r.message,
                                !.text = r.text,
                                !.status = r.status,
                                !.requests = r.requests,
                                !.logged = ~updates,
                                !.session = IF updates THEN "open" ELSE "none"]]
          /\ segments' = after.table
          /\ files' = after.files
    /\ UNCHANGED <<nextJob, jobs, conv, bg, calls, frame>>

\* update_segment_text_content: the query of a fresh session
TrLookup(j) ==
    /\ tr[j].pc = "lookup"
    /\ LET found == QuerySegment(segments, jobs[j].episode_id, jobs[j].segment_id)
       IN tr' = [tr EXCEPT ![j] =
                   IF found # <<>>
                   THEN [@ EXCEPT !.pc = "commit", !.loaded = found[1].text_content]
                   ELSE [@ EXCEPT !.pc = "done", !.session = SessionOnExit(FALSE)]]
    /\ UNCHANGED <<segments, files, nextJob, jobs, conv, bg, calls, frame>>

\* update_segment_text_content: the assignment and session.commit(); an
\* exception of the commit leaves the task
TrCommit(j) ==
    /\ tr[j].pc = "commit"
    /\ LET c == update_segment_text_content(segments, jobs[j].segment_id,
                                            tr[j].loaded, tr[j].text)
       IN /\ segments' = c.table
          /\ tr' = [tr EXCEPT ![j] = [@ EXCEPT !.pc = "done", !.raised = c.raised,
                                                 !.session = SessionOnExit(c.raised)]]
    /\ UNCHANGED <<files, nextJob, jobs, conv, bg, calls, frame>>

----------------------------------------------------------------------------
(* The Frame Compositor: remove_background_from_video, remove_background_task *)
(* and update_segment_video_path.                                          *)

\* What one cap.read() of a frame that the stream holds can do: deliver the
\* frame; fail to decode it (read returns success = False); or deliver a frame
\* on which cvtColor / segmenter.process / blur / write raises.
ReadResults == {"ok", "decode_error", "process_error"}

RECURSIVE SeqsUpTo(_, _)
SeqsUpTo(S, n) ==
    IF n = 0 THEN {<<>>}
    ELSE LET shorter == SeqsUpTo(S, n - 1)
         IN shorter \cup {Append(q, x) : q \in {r \in shorter : Len(r) = n - 1}, x \in S}

\* The facts of one compositor run that the code does not decide: what the
\* capture reports, whether the background image decodes, what each read of
\* the stream's frames does, whether the source has an audio track, and
\* whether reopening and muxing (or the rename) work.
CompositorRuns ==
    [ width : {0, 640}, height : {0, 480}, bg_ok : BOOLEAN,
      reads : SeqsUpTo(ReadResults, MaxFrames),
      audio : BOOLEAN, mux : {"ok", "fails"} ]

GoodRun ==
    [ width |-> 640, height |-> 480, bg_ok |-> TRUE,
      reads |-> [i \in 1 .. MaxFrames |-> "ok"],
      audio |-> TRUE, mux |-> "ok" ]

\* the runs the pipeline's jobs are exercised with: one per way the
\* compositor can end
PipelineRuns ==
    { GoodRun,
      [GoodRun EXCEPT !.audio = FALSE],
      [GoodRun EXCEPT !.width = 0],
      [GoodRun EXCEPT !.bg_ok = FALSE],
      [GoodRun EXCEPT !.reads[MaxFrames] = "decode_error"],
      [GoodRun EXCEPT !.reads[1] = "process_error"],
      [GoodRun EXCEPT !.mux = "fails"] }

\* a frame loop that reads the first frame before the loop and never writes it
RECURSIVE FrameLoopSkipsFirst(_, _, _)
FrameLoopSkipsFirst(reads, i, written) ==
    IF i > Len(reads)
    THEN [written |-> written, raised |-> FALSE, truncated |-> FALSE]
    ELSE IF reads[i] = "decode_error"
    THEN [written |-> written, raised |-> FALSE, truncated |-> TRUE]
    ELSE IF reads[i] = "process_error"
    THEN [written |-> written, raised |-> TRUE, truncated |-> FALSE]
    ELSE FrameLoopSkipsFirst(reads, i + 1, IF i = 1 THEN written ELSE Append(written, i))

\* The frame loop: `while cap.isOpened(): success, frame = cap.read();
\* if not success: break; ...; out.write(composite)`.  A read fails at the end
\* of the stream and on a decode error alike, and either way the loop ends
\* normally; an exception in the body leaves the function.
RECURSIVE FrameLoop(_, _, _)
FrameLoop(reads, i, written) ==
    IF i > Len(reads)
    THEN [written |-> written, raised |-> FALSE, truncated |-> FALSE]
    ELSE IF reads[i] = "decode_error"
    THEN [written |-> written, raised |-> FALSE, truncated |-> TRUE]
    ELSE IF reads[i] = "process_error"
    THEN [written |-> written, raised |-> TRUE, truncated |-> FALSE]
    ELSE FrameLoop(reads, i + 1, Append(written, i))

\* a writer that writes straight to the output path
TempVideoPathIsOutput(output) == output

\* temp_video_path = output_video_path + ".video_only.mp4"
TempVideoPath(output) == output \o <<".video_only.mp4">>

\* a compositor that loads the background image before it opens the video
remove_background_image_first(fs, input, output, v, by) ==
    LET temp == TempVideoPath(output)
        width == IF input \in DOMAIN fs THEN v.width ELSE 0
        height == IF input \in DOMAIN fs THEN v.height ELSE 0
        loop == FrameLoop(v.reads, 1, <<>>)
        video_only == Content("video_only", by, loop.written)
        fs_loop == WriteFile(fs, temp, video_only)
        Result(raised, after) ==
            [raised |-> raised, files |-> after, frames |-> loop.written,
             truncated |-> loop.truncated]
    IN IF ~v.bg_ok
       THEN [raised |-> "background", files |-> fs, frames |-> <<>>, truncated |-> FALSE]
       ELSE IF width = 0 \/ height = 0
       THEN [raised |-> "dimensions", files |-> fs, frames |-> <<>>, truncated |-> FALSE]
       ELSE IF loop.raised \/ v.mux = "fails"
       THEN Result(IF loop.raised THEN "frame" ELSE "mux", fs_loop)
       ELSE Result("none", RemoveFile(WriteFile(fs_loop, output, video_only), temp))

\* a compositor that checks the width alone before it opens the writer
remove_background_checking_width(fs, input, output, v, by) ==
    LET temp == TempVideoPath(output)
        width == IF input \in DOMAIN fs THEN v.width ELSE 0
        loop == FrameLoop(v.reads, 1, <<>>)
        video_only == Content("video_only", by, loop.written)
        fs_loop == WriteFile(fs, temp, video_only)
        Result(raised, after) ==
            [raised |-> raised, files |-> after, frames |-> loop.written,
             truncated |-> loop.truncated]
    IN IF width = 0
       THEN [raised |-> "dimensions", files |-> fs, frames |-> <<>>, truncated |-> FALSE]
       ELSE IF ~v.bg_ok
       THEN [raised |-> "background", files |-> fs, frames |-> <<>>, truncated |-> FALSE]
       ELSE IF loop.raised \/ v.mux = "fails"
       THEN Result(IF loop.raised THEN "frame" ELSE "mux", fs_loop)
       ELSE Result("none", RemoveFile(WriteFile(fs_loop, output, video_only), temp))

\* remove_background_from_video: the exception it raises ("none" when it
\* returns), the files it leaves, the frames it appended and whether the frame
\* loop stopped before the end of the stream.
remove_background_from_video(fs, input, output, v, by) ==
    LET temp == TempVideoPath(output)
        width == IF input \in DOMAIN fs THEN v.width ELSE 0
        height == IF input \in DOMAIN fs THEN v.height ELSE 0
        loop == FrameLoop(v.reads, 1, <<>>)
        video_only == Content("video_only", by, loop.written)
        fs_loop == WriteFile(fs, temp, video_only)
        Result(raised, after) ==
            [raised |-> raised, files |-> after, frames |-> loop.written,
             truncated |-> loop.truncated]
    IN IF width = 0 \/ height = 0
       THEN [raised |-> "dimensions", files |-> fs, frames |-> <<>>, truncated |-> FALSE]
       ELSE IF ~v.bg_ok
       THEN [raised |-> "background", files |-> fs, frames |-> <<>>, truncated |-> FALSE]
       ELSE IF loop.raised
       THEN Result("frame", fs_loop)
       ELSE IF v.audio
       THEN IF v.mux = "fails"
            THEN Result("mux", WriteFile(fs_loop, output, Content("partial", by, <<>>)))
            ELSE Result("none",
                        RemoveFile(WriteFile(fs_loop, output,
                                             Content("composited", by, loop.written)),
                                   temp))
       ELSE IF v.mux = "fails"
            THEN Result("mux", fs_loop)
            ELSE Result("none", RemoveFile(WriteFile(fs_loop, output, video_only), temp))

\* The handles remove_background_from_video holds when it leaves with the
\* exception `raised` ("none": it returned), i.e. those it acquired and did not
\* release with release() / close(): the segmenter (line 24) and the capture
\* (27) precede both checks, the writer (43) precedes the loop, and the three
\* are released only after the loop (68-70); the clips (73-74) are closed only
\* after the mux step (82-83), which is where "mux" raises.
UnreleasedOnExit(raised) ==
    CASE raised \in {"dimensions", "background"} -> {"segmenter", "capture"}
      [] raised = "frame" -> {"segmenter", "capture", "writer"}
      [] raised = "mux" -> {"video_clip", "original_clip"}
      [] OTHER -> {}

\* the last such index, i.e. output_video_path.rfind('/episodes/')
FindLastEpisodes(path) ==
    LET hits == {i \in 1 .. Len(path) - 1 : path[i] = "episodes"}
    IN IF hits = {} THEN 0 ELSE CHOOSE i \in hits : \A k \in hits : i >= k

\* the first index of the component "episodes" that something follows, i.e.
\* output_video_path.find('/episodes/'); 0 when there is none
FindEpisodes(path) ==
    LET hits == {i \in 1 .. Len(path) - 1 : path[i] = "episodes"}
    IN IF hits = {} THEN 0 ELSE CHOOSE i \in hits : \A k \in hits : i <= k

\* rel_path of remove_background_task
RelPath(path) ==
    IF FindEpisodes(path) # 0
    THEN SubSeq(path, FindEpisodes(path), Len(path))
    ELSE path

\* a background-removal task that updates the row whatever happened
BgTaskUpdatesAlways(result) == TRUE

\* remove_background_task goes on to update_segment_video_path exactly when
\* remove_background_from_video returned without an exception
BgTaskUpdates(result) == result.raised = "none"

\* an except clause that also resets the text of the rows
BgTaskExceptResets(table, fs) ==
    [table |-> [s \in DOMAIN table |-> [table[s] EXCEPT !.text_content = None]],
     files |-> fs]

\* the except clause of remove_background_task prints the exception and
\* leaves the table and the files as they are
BgTaskExcept(table, fs) == [table |-> table, files |-> fs]

\* an update that assigns the path to the column raw_video_path
update_segment_raw_video_path(table, segment_id, loaded, video_path) ==
    IF segment_id \in DOMAIN table
    THEN [table |-> [table EXCEPT ![segment_id].raw_video_path = video_path],
          raised |-> FALSE]
    ELSE [table |-> table, raised |-> TRUE]

\* update_segment_video_path, after its query found the row
update_segment_video_path(table, segment_id, loaded, video_path) ==
    CommitField(table, segment_id, "video_path", loaded, video_path)

BgIdle == [pc |-> "none", error |-> "none", truncated |-> FALSE, frames |-> <<>>,
           loaded |-> None, logged |-> FALSE, session |-> "none"]

\* remove_background_task up to the call of update_segment_video_path
BgRun(j, v) ==
    /\ bg[j].pc = "queued"
    /\ LET r == remove_background_from_video(files, jobs[j].output_path,
                                             jobs[j].bg_output_path, v, <<"job", j>>)
           updates == BgTaskUpdates(r)
           after == IF updates THEN [table |-> segments, files |-> r.files]
                    ELSE BgTaskExcept(segments, r.files)
       IN /\ bg' = [bg EXCEPT ![j] =
                      [@ EXCEPT !.pc = IF updates THEN "lookup" ELSE "done",
                                !.error = r.raised,
                                !.truncated = r.truncated,
                                !.frames = r.frames,
                                !.logged = ~updates,
                                !.session = IF updates THEN "open" ELSE "none"]]
          /\ segments' = after.table
          /\ files' = after.files
    /\ UNCHANGED <<nextJob, jobs, conv, tr, calls, frame>>

\* a query that blocks until the row exists
BgLookupWaits(j) ==
    /\ bg[j].pc = "lookup"
    /\ LET found == QuerySegment(segments, jobs[j].episode_id, jobs[j].segment_id)
       IN /\ found # <<>>
          /\ bg' = [bg EXCEPT ![j] = [@ EXCEPT !.pc = "commit", !.loaded = found[1].video_path]]
    /\ UNCHANGED <<segments, files, nextJob, jobs, conv, tr, calls, frame>>

\* update_segment_video_path: the query of a fresh session
BgLookup(j) ==
    /\ bg[j].pc = "lookup"
    /\ LET found == QuerySegment(segments, jobs[j].episode_id, jobs[j].segment_id)
       IN bg' = [bg EXCEPT ![j] =
                   IF found # <<>>
                   THEN [@ EXCEPT !.pc = "commit", !.loaded = found[1].video_path]
                   ELSE [@ EXCEPT !.pc = "done", !.session = SessionOnExit(FALSE)]]
    /\ UNCHANGED <<segments, files, nextJob, jobs, conv, tr, calls, frame>>

\* update_segment_video_path: the assignment and session.commit(); the task's
\* `except Exception` catches an exception of the commit and prints it
BgCommit(j) ==
    /\ bg[j].pc = "commit"
    /\ LET c == update_segment_video_path(segments, jobs[j].segment_id, bg[j].loaded,
                                          RelPath(jobs[j].bg_output_path))
           after == IF c.raised THEN BgTaskExcept(c.table, files)
                    ELSE [table |-> c.table, files |-> files]
       IN /\ segments' = after.table
          /\ files' = after.files
          /\ bg' = [bg EXCEPT ![j] =
                      [@ EXCEPT !.pc = "done",
                                !.error = IF c.raised THEN "stale" ELSE "none",
                                !.logged = c.raised,
                                !.session = SessionOnExit(c.raised)]]
    /\ UNCHANGED <<nextJob, jobs, conv, tr, calls, frame>>

----------------------------------------------------------------------------
(* The compositing of one frame: lines 55-63 of remove_background_from_video *)
(* on one channel of one pixel, in np.float32 arithmetic.                    *)
(* A float32 is [m, e], the number m * 2^e with 2^23 <= m < 2^24, or zero.   *)
(* Every operation is the exact result rounded to the nearest float32, ties  *)
(* to even; the numbers met here are far from the subnormal range.           *)

\* the largest value of a uint8 channel, and the divisor of the normalisation
MaxPixel == 255

\* the masks drawn are the multiples of 2^-AlphaBits in [0, 1]
AlphaBits == 4

Zero == [m |-> 0, e |-> 0]

RECURSIVE BitLength(_)
BitLength(n) == IF n = 0 THEN 0 ELSE 1 + BitLength(n \div 2)

\* the float32 nearest to (n + t) * 2^e, where 0 < t < 1 when `sticky` and t = 0
\* otherwise; with `sticky`, n has more than 25 bits
RoundToFloat32(n, sticky, e) ==
    IF n = 0 THEN Zero
    ELSE LET bits == BitLength(n)
         IN IF bits <= 24
            THEN [m |-> n * 2^(24 - bits), e |-> e - (24 - bits)]
            ELSE LET s == bits - 24
                     q == n \div 2^s
                     r == n % 2^s
                     half == 2^(s - 1)
                     up == r > half \/ (r = half /\ (sticky \/ q % 2 = 1))
                     rounded == IF up THEN q + 1 ELSE q
                 IN IF rounded = 2^24
                    THEN [m |-> 2^23, e |-> e + s + 1]
                    ELSE [m |-> rounded, e |-> e + s]

\* x.astype(np.float32) / 255.0 for a uint8 x: the quotient by long division,
\* 30 bits of it and whether a remainder is left
Normalize(x) ==
    IF x = 0 THEN Zero
    ELSE LET t == 8 - BitLength(x)
             scaled == x * 2^t
             q1 == (scaled * 2^22) \div MaxPixel
             r1 == (scaled * 2^22) % MaxPixel
             q2 == (r1 * 2^8) \div MaxPixel
             r2 == (r1 * 2^8) % MaxPixel
         IN RoundToFloat32(q1 * 2^8 + q2, r2 # 0, -30 - t)

\* a float32 written with an odd m (no trailing zero bits)
RECURSIVE Odd(_)
Odd(a) == IF a.m = 0 \/ a.m % 2 = 1 THEN a ELSE Odd([m |-> a.m \div 2, e |-> a.e + 1])

\* a * b, for a factor a of at most 8 significant bits (the masks drawn, and
\* 255): the product is exact in 2^31 for factors below 2^7, and is computed
\* without its lowest 4 bits, kept as the sticky bit, for the others
Multiply(a, b) ==
    LET k == Odd(a)
    IN IF k.m = 0 \/ b.m = 0 THEN Zero
       ELSE IF k.m < 2^7
       THEN RoundToFloat32(k.m * b.m, FALSE, k.e + b.e)
       ELSE LET hi == b.m \div 2^4
                lo == b.m % 2^4
            IN RoundToFloat32(k.m * hi + (k.m * lo) \div 2^4,
                              (k.m * lo) % 2^4 # 0, k.e + b.e + 4)

\* a + b for a, b >= 0: the smaller term is shifted under the larger one with
\* three guard bits, the bits shifted out kept as the sticky bit
Add(a, b) ==
    IF a.m = 0 THEN b
    ELSE IF b.m = 0 THEN a
    ELSE LET big == IF a.e >= b.e THEN a ELSE b
             small == IF a.e >= b.e THEN b ELSE a
             d == big.e - small.e
             shifted == IF d > 27 THEN 0 ELSE (small.m * 2^3) \div 2^d
             lost == IF d > 27 THEN TRUE ELSE (small.m * 2^3) % 2^d # 0
         IN RoundToFloat32(big.m * 2^3 + shifted, lost, big.e - 3)

\* 1 - a for 0 <= a <= 1
OneMinus(a) ==
    IF a.m = 0 THEN [m |-> 2^23, e |-> -23]
    ELSE IF a.e >= -30
    THEN RoundToFloat32(2^(-a.e) - a.m, FALSE, a.e)
    ELSE LET d == -a.e - 30
             whole == IF d > 24 THEN 0 ELSE a.m \div 2^d
             lost == IF d > 24 THEN TRUE ELSE a.m % 2^d # 0
         IN RoundToFloat32(2^30 - whole - (IF lost THEN 1 ELSE 0), lost, -30)

\* astype(np.uint8) of a float32 >= 0: the fraction is dropped, 8 bits are kept
AsUint8(a) ==
    IF a.m = 0 THEN 0
    ELSE IF a.e >= 8 THEN 0
    ELSE IF a.e >= 0 THEN (a.m * 2^a.e) % (MaxPixel + 1)
    ELSE IF -a.e > 30 THEN 0
    ELSE (a.m \div 2^(-a.e)) % (MaxPixel + 1)

\* the mask value k * 2^-AlphaBits
Alpha(k) == RoundToFloat32(k, FALSE, -AlphaBits)

\* composite = alpha * foreground + (1 - alpha) * background
\* composite = (composite * 255).astype(np.uint8)
Composite(alpha, frame_pixel, bg_pixel) ==
    LET foreground == Normalize(frame_pixel)
        background == Normalize(bg_pixel)
        composite == Add(Multiply(alpha, foreground),
                         Multiply(OneMinus(alpha), background))
    IN AsUint8(Multiply(RoundToFloat32(MaxPixel, FALSE, 0), composite))

\* one pass of the frame loop's arithmetic, on the frame that was read: its
\* mask value is frame.alpha * 2^-AlphaBits
CompositeFrame ==
    /\ frame # NoFrame
    /\ frame.composite = NoFrame.composite
    /\ frame' = [frame EXCEPT !.composite =
                    Composite(Alpha(frame.alpha), frame.foreground, frame.background)]
    /\ UNCHANGED <<segments, files, nextJob, jobs, conv, tr, bg, calls>>

----------------------------------------------------------------------------
(* The segment routes. *)

\* delete_segment: 404 when the query finds no row, else the row is deleted
delete_segment(episode_id, segment_id) ==
    /\ QuerySegment(segments, episode_id, segment_id) # <<>>
    /\ segments' = [s \in (DOMAIN segments) \ {segment_id} |-> segments[s]]
    /\ UNCHANGED <<files, nextJob, jobs, conv, tr, bg, calls, frame>>

----------------------------------------------------------------------------
(* The upload route: upload_video. *)

\* the extensions of the uploaded file's name ("" when it has none)
Extensions == {"", ".webm", ".WEBM", ".mp4"}

\* str.lower() on an extension
Lower(ext) == IF ext = ".WEBM" THEN ".webm" ELSE ext

\* the command line of upload_video carries no -y
UploadOverwrites == FALSE

\* the except clause of upload_video: remove the file video_path names and,
\* when mp4_path was assigned, the file it names
UploadCleanup(fs, video_path, mp4_assigned, mp4_path) ==
    LET fs1 == IF video_path \in DOMAIN fs THEN RemoveFile(fs, video_path) ELSE fs
    IN IF mp4_assigned /\ mp4_path \in DOMAIN fs1 THEN RemoveFile(fs1, mp4_path) ELSE fs1

\* upload_video, one call from the request to the response.  The facts the
\* code does not decide: the extension of the uploaded file's name, how the
\* encoder fares, whether VideoFileClip can read the stored video, whether
\* the AssemblyAI key is configured and what the service replies.
upload_video(episode_id, segment_id, ext, encoder, clip_ok, key_configured, reply) ==
    /\ Len(calls) < MaxUploads
    /\ LET k == Len(calls) + 1
           by == <<"call", k>>
           found == QuerySegment(segments, episode_id, segment_id)
           dir == SegmentsDir(episode_id)
           orig_ext == IF ext = "" THEN ".webm" ELSE ext
           upload_path == dir \o <<ToString(segment_id), "_video", orig_ext>>
           fs_saved == WriteFile(files, upload_path, Content("upload", by, <<>>))
           is_webm == Lower(orig_ext) = ".webm"
           mp4_path == dir \o <<ToString(segment_id), "_video", ".mp4">>
           run == Ffmpeg(fs_saved, upload_path, mp4_path, UploadOverwrites, encoder, by)
           fs_converted == IF is_webm THEN run.files ELSE fs_saved
           video_path == IF is_webm THEN mp4_path ELSE upload_path
           relative == <<"episodes", ToString(episode_id), "segments",
                         ToString(segment_id), "_video",
                         IF is_webm THEN ".mp4" ELSE orig_ext>>
           r == transcribe_audio(key_configured, ReplyFor(fs_converted, video_path, reply))
           with_video == [found[1] EXCEPT !.video_path = relative, !.duration = 1000]
           with_text == IF found[1].segment_type = "human" /\ r.success /\ Truthy(r.text)
                        THEN [with_video EXCEPT !.text_content = r.text]
                        ELSE with_video
           Call(status, final) ==
               [episode_id |-> episode_id, segment_id |-> segment_id, status |-> status,
                upload_path |-> upload_path, video_path |-> final, relative |-> relative]
       IN IF found = <<>>
          THEN /\ calls' = Append(calls, Call(404, None))
               /\ UNCHANGED <<segments, files>>
          ELSE IF is_webm /\ run.returncode # 0
          THEN /\ calls' = Append(calls, Call(500, upload_path))
               /\ files' = UploadCleanup(run.files, upload_path, TRUE, mp4_path)
               /\ UNCHANGED segments
          ELSE IF ~clip_ok
          THEN /\ calls' = Append(calls, Call(500, video_path))
               /\ files' = UploadCleanup(fs_converted, video_path, is_webm, mp4_path)
               /\ UNCHANGED segments
          ELSE /\ calls' = Append(calls, Call(201, video_path))
               /\ files' = fs_converted
               /\ segments' = [segments EXCEPT ![segment_id] = with_text]
    /\ UNCHANGED <<nextJob, jobs, conv, tr, bg, frame>>

----------------------------------------------------------------------------
(* The pipeline with the segment routes running beside it. *)

Init ==
    /\ segments = [sid \in SegmentIds |-> InitialRow(sid)]
    /\ files = <<>>
    /\ nextJob = 1
    /\ jobs = [j \in Jobs |-> NoJob]
    /\ conv = [j \in Jobs |-> ConvIdle]
    /\ tr = [j \in Jobs |-> TrIdle]
    /\ bg = [j \in Jobs |-> BgIdle]
    /\ calls = <<>>
    /\ frame = NoFrame

Next ==
    \/ \E sid \in SegmentIds, saved \in BOOLEAN : SubmitMediaJob(MaxJobs, EpisodeOf(sid), sid, saved)
    \/ \E j \in Jobs : ConvertStart(j)
    \/ \E j \in Jobs, encoder \in EncoderOutcomes : ConvertFinish(j, encoder)
    \/ \E j \in Jobs, key \in BOOLEAN : \E reply \in ServiceReplies(j) : TrRun(j, key, reply)
    \/ \E j \in Jobs : TrLookup(j)
    \/ \E j \in Jobs : TrCommit(j)
    \/ \E j \in Jobs, v \in PipelineRuns : BgRun(j, v)
    \/ \E j \in Jobs : BgLookup(j)
    \/ \E j \in Jobs : BgCommit(j)
    \/ \E sid \in SegmentIds : delete_segment(EpisodeOf(sid), sid)

Spec == Init /\ [][Next]_vars

\* the upload route serving requests, with segments deleted in between
NextUpload ==
    \/ \E sid \in SegmentIds, ext \in Extensions, encoder \in EncoderOutcomes,
          clip_ok \in BOOLEAN, key \in BOOLEAN :
            \E reply \in ServiceReplies(Len(calls) + 1) :
                upload_video(EpisodeOf(sid), sid, ext, encoder, clip_ok, key, reply)
    \/ \E sid \in SegmentIds : delete_segment(EpisodeOf(sid), sid)

SpecUpload == Init /\ [][NextUpload]_vars

----------------------------------------------------------------------------
(* The compositor branch on its own, over every run of the compositor. *)

\* MediaJob 1 as its transcode task left it on success: the raw and the
\* transcoded file are on disk and both fan-out tasks are queued
InitCompositor ==
    \E sid \in SegmentIds :
        LET input == RawPath(EpisodeOf(sid), sid, 1)
            output == TranscodedPath(EpisodeOf(sid), sid, 1)
            job == [episode_id |-> EpisodeOf(sid), segment_id |-> sid,
                    input_path |-> input, output_path |-> output,
                    bg_output_path |-> BgRemovedPath(output),
                    row_at_submit |-> <<InitialRow(sid)>>]
        IN /\ segments = [s \in SegmentIds |-> InitialRow(s)]
           /\ files = WriteFile(WriteFile(<<>>, input, Content("raw", <<"job", 1>>, <<>>)),
                                output, Content("mp4", <<"job", 1>>, <<>>))
           /\ nextJob = 2
           /\ jobs = [j \in Jobs |-> IF j = 1 THEN job ELSE NoJob]
           /\ conv = [j \in Jobs |-> IF j = 1 THEN [state |-> "succeeded", returncode |-> 0]
                                     ELSE ConvIdle]
           /\ tr = [j \in Jobs |-> IF j = 1 THEN [TrIdle EXCEPT !.pc = "queued"] ELSE TrIdle]
           /\ bg = [j \in Jobs |-> IF j = 1 THEN [BgIdle EXCEPT !.pc = "queued"] ELSE BgIdle]
           /\ calls = <<>>
           /\ frame = NoFrame

NextCompositor ==
    \/ \E j \in Jobs, v \in CompositorRuns : BgRun(j, v)
    \/ \E j \in Jobs : BgLookup(j)
    \/ \E j \in Jobs : BgCommit(j)
    \/ \E sid \in SegmentIds : delete_segment(EpisodeOf(sid), sid)

SpecCompositor == InitCompositor /\ [][NextCompositor]_vars

----------------------------------------------------------------------------
(* remove_background_task called with any output path. *)

\* the output paths the task is called with for segment sid: the one of the
\* naming convention, one with no component "episodes", and one in which
\* "episodes" occurs twice
OutputPaths(sid) ==
    { BgRemovedPath(TranscodedPath(EpisodeOf(sid), sid, 1)),
      <<"tmp", "exports", ToString(sid), "_bg_removed", ".mp4">>,
      <<"srv", "episodes", "archive", "episodes", ToString(EpisodeOf(sid)),
        ToString(sid), "_bg_removed", ".mp4">> }

\* remove_background_task.delay(result, input, background, output, episode_id,
\* segment_id) and its sibling, submitted with the transcoded file on disk
InitPaths ==
    \E sid \in SegmentIds : \E bg_output \in OutputPaths(sid) :
        LET input == RawPath(EpisodeOf(sid), sid, 1)
            output == TranscodedPath(EpisodeOf(sid), sid, 1)
            job == [episode_id |-> EpisodeOf(sid), segment_id |-> sid,
                    input_path |-> input, output_path |-> output,
                    bg_output_path |-> bg_output,
                    row_at_submit |-> <<InitialRow(sid)>>]
        IN /\ segments = [s \in SegmentIds |-> InitialRow(s)]
           /\ files = WriteFile(WriteFile(<<>>, input, Content("raw", <<"job", 1>>, <<>>)),
                                output, Content("mp4", <<"job", 1>>, <<>>))
           /\ nextJob = 2
           /\ jobs = [j \in Jobs |-> IF j = 1 THEN job ELSE NoJob]
           /\ conv = [j \in Jobs |-> IF j = 1 THEN [state |-> "succeeded", returncode |-> 0]
                                     ELSE ConvIdle]
           /\ tr = [j \in Jobs |-> IF j = 1 THEN [TrIdle EXCEPT !.pc = "queued"] ELSE TrIdle]
           /\ bg = [j \in Jobs |-> IF j = 1 THEN [BgIdle EXCEPT !.pc = "queued"] ELSE BgIdle]
           /\ calls = <<>>
           /\ frame = NoFrame

SpecPaths == InitPaths /\ [][NextCompositor]_vars

----------------------------------------------------------------------------
(* A re-upload: a second MediaJob for a segment whose first job may still *)
(* be running.                                                            *)

\* the pipeline with a second submission for the segment of the first job
NextReupload ==
    \/ \E sid \in SegmentIds, saved \in BOOLEAN :
          /\ nextJob = 1 \/ sid = jobs[1].segment_id
          /\ SubmitMediaJob(2, EpisodeOf(sid), sid, saved)
    \/ \E j \in Jobs : ConvertStart(j)
    \/ \E j \in Jobs, encoder \in EncoderOutcomes : ConvertFinish(j, encoder)
    \/ \E j \in Jobs, key \in BOOLEAN : \E reply \in ServiceReplies(j) : TrRun(j, key, reply)
    \/ \E j \in Jobs : TrLookup(j)
    \/ \E j \in Jobs : TrCommit(j)
    \/ \E j \in Jobs, v \in PipelineRuns : BgRun(j, v)
    \/ \E j \in Jobs : BgLookup(j)
    \/ \E j \in Jobs : BgCommit(j)

SpecReupload == Init /\ [][NextReupload]_vars

----------------------------------------------------------------------------
(* The two fan-out tasks called with any pair of episode id and segment id. *)

\* the episode ids the tasks are called with
EpisodeIds == {EpisodeOf(sid) : sid \in SegmentIds}

\* transcribe_video_task.delay(result, video_path, episode_id, segment_id) and
\* remove_background_task.delay(..., episode_id, segment_id) with the transcoded
\* file on disk; the segment need not be one of the episode
InitUpdates ==
    \E episode_id \in EpisodeIds, sid \in SegmentIds :
        LET input == RawPath(episode_id, sid, 1)
            output == TranscodedPath(episode_id, sid, 1)
            job == [episode_id |-> episode_id, segment_id |-> sid,
                    input_path |-> input, output_path |-> output,
                    bg_output_path |-> BgRemovedPath(output),
                    row_at_submit |-> QuerySegment([s \in SegmentIds |-> InitialRow(s)],
                                                   episode_id, sid)]
        IN /\ segments = [s \in SegmentIds |-> InitialRow(s)]
           /\ files = WriteFile(WriteFile(<<>>, input, Content("raw", <<"job", 1>>, <<>>)),
                                output, Content("mp4", <<"job", 1>>, <<>>))
           /\ nextJob = 2
           /\ jobs = [j \in Jobs |-> IF j = 1 THEN job ELSE NoJob]
           /\ conv = [j \in Jobs |-> IF j = 1 THEN [state |-> "succeeded", returncode |-> 0]
                                     ELSE ConvIdle]
           /\ tr = [j \in Jobs |-> IF j = 1 THEN [TrIdle EXCEPT !.pc = "queued"] ELSE TrIdle]
           /\ bg = [j \in Jobs |-> IF j = 1 THEN [BgIdle EXCEPT !.pc = "queued"] ELSE BgIdle]
           /\ calls = <<>>
           /\ frame = NoFrame

NextUpdates ==
    \/ \E j \in Jobs, key \in BOOLEAN : \E reply \in ServiceReplies(j) : TrRun(j, key, reply)
    \/ \E j \in Jobs : TrLookup(j)
    \/ \E j \in Jobs : TrCommit(j)
    \/ \E j \in Jobs, v \in PipelineRuns : BgRun(j, v)
    \/ \E j \in Jobs : BgLookup(j)
    \/ \E j \in Jobs : BgCommit(j)
    \/ \E sid \in SegmentIds : delete_segment(EpisodeOf(sid), sid)

SpecUpdates == InitUpdates /\ [][NextUpdates]_vars

----------------------------------------------------------------------------
(* The frame loop's arithmetic over masks, frame pixels and background *)
(* pixels.                                                             *)

\* cap.read() and segmenter.process delivered a frame: any mask value, any
\* frame pixel, and a background pixel that is black, white or equal to it
InitComposite ==
    /\ segments = [sid \in SegmentIds |-> InitialRow(sid)]
    /\ files = <<>>
    /\ nextJob = 1
    /\ jobs = [j \in Jobs |-> NoJob]
    /\ conv = [j \in Jobs |-> ConvIdle]
    /\ tr = [j \in Jobs |-> TrIdle]
    /\ bg = [j \in Jobs |-> BgIdle]
    /\ calls = <<>>
    /\ \E k \in 0 .. 2^AlphaBits, frame_pixel \in 0 .. MaxPixel :
          \E bg_pixel \in {0, frame_pixel, MaxPixel} :
              frame = [alpha |-> k, foreground |-> frame_pixel,
                       background |-> bg_pixel, composite |-> NoFrame.composite]

NextComposite == CompositeFrame

SpecComposite == InitComposite /\ [][NextComposite]_vars

----------------------------------------------------------------------------
(* The claims. *)

Submitted(j) == conv[j].state # "none"

Started(task) == task.pc \notin {"none", "queued"}

\* the path job j's compositor branch persists
JobRelPath(j) == RelPath(jobs[j].bg_output_path)

\* no other job was submitted for the segment of job j
OnlyJobOn(j) == \A k \in Jobs \ {j} : jobs[k].segment_id # jobs[j].segment_id

\* the row of job j's segment still exists
RowExists(j) == jobs[j].segment_id \in DOMAIN segments

RowOf(j) == segments[jobs[j].segment_id]

\* a step of job j's transcription task, and of its background-removal task
TrStep(j) ==
    \/ \E key \in BOOLEAN : \E reply \in ServiceReplies(j) : TrRun(j, key, reply)
    \/ TrLookup(j)
    \/ TrCommit(j)

BgStep(j) ==
    \/ \E v \in PipelineRuns : BgRun(j, v)
    \/ BgLookup(j)
    \/ BgCommit(j)

\* the task was submitted and has not ended
Pending(task) == task.pc \in {"queued", "lookup", "commit"}

\* C1: within one MediaJob neither the background-removal task nor the
\* transcription task has started unless the job's transcode task finished
\* successfully: ffmpeg exited with 0, the task returned, and the transcoded
\* file is on disk.
TranscodePrecedesFanout ==
    \A j \in Jobs :
        (Started(tr[j]) \/ Started(bg[j])) =>
            /\ conv[j].state = "succeeded"
            /\ conv[j].returncode = 0
            /\ jobs[j].output_path \in DOMAIN files
            /\ files[jobs[j].output_path].kind = "mp4"

\* C1 witness: both branches of a job have started after its transcode
BothBranchesStarted ==
    \E j \in Jobs : Started(tr[j]) /\ Started(bg[j]) /\ conv[j].state = "succeeded"

\* C2: when ffmpeg exits with a non-zero code (e.g. the input path does not
\* exist), the job is Failed, neither fan-out task is ever submitted, and the
\* Segment row of the job has exactly the field values it had at submission.
TranscodeFailureStopsJob ==
    \A j \in Jobs :
        conv[j].returncode > 0 =>
            /\ conv[j].state = "failed"
            /\ tr[j] = TrIdle
            /\ bg[j] = BgIdle
            /\ (RowExists(j) /\ OnlyJobOn(j)) => <<RowOf(j)>> = jobs[j].row_at_submit

\* C2 witness: a job whose raw input was never on disk has failed
TranscodeFailedOnMissingInput ==
    \E j \in Jobs :
        /\ conv[j].state = "failed"
        /\ jobs[j].input_path \notin DOMAIN files
        /\ RowExists(j)

\* both branches of job j returned after committing their results
BothBranchesCommitted(j) ==
    /\ bg[j].pc = "done" /\ bg[j].error = "none"
    /\ tr[j].pc = "done" /\ tr[j].success /\ Truthy(tr[j].text) /\ ~tr[j].raised

\* C3: when both branches of a job succeeded, in whatever order their lookups
\* and commits interleaved, the row holds the compositor's output path in
\* video_path and the transcription in text_content.
OrderIndependentConvergence ==
    \A j \in Jobs :
        (BothBranchesCommitted(j) /\ RowExists(j) /\ OnlyJobOn(j)) =>
            /\ RowOf(j).video_path = JobRelPath(j)
            /\ RowOf(j).text_content = Spoken(j)

\* C3 witness: both results are in the row
BothResultsInRow ==
    \E j \in Jobs :
        /\ BothBranchesCommitted(j) /\ RowExists(j)
        /\ RowOf(j).video_path = JobRelPath(j)
        /\ RowOf(j).text_content = Spoken(j)

Column(table, field) == [s \in DOMAIN table |-> table[s][field]]

\* this step ends job j's background-removal task in a logged failure
BgFails(j) == bg[j].pc # "done" /\ bg'[j].pc = "done" /\ bg'[j].logged

\* this step ends job j's transcription task in a logged failure or an exception
TrFails(j) == tr[j].pc # "done" /\ tr'[j].pc = "done" /\ (tr'[j].logged \/ tr'[j].raised)

\* C4: the step in which one fan-out branch fails leaves the sibling task as
\* it is (not failed, cancelled or restarted), leaves the column the sibling
\* writes as it is, and removes or rewrites no file but the failing branch's
\* own; a sibling that has not ended can take its next step after the other
\* branch has failed.
BranchIsolation ==
    /\ [](\A j \in Jobs :
            /\ (Pending(tr[j]) /\ bg[j].pc = "done" /\ bg[j].logged) => ENABLED TrStep(j)
            /\ (Pending(bg[j]) /\ tr[j].pc = "done" /\ (tr[j].logged \/ tr[j].raised))
                  => ENABLED BgStep(j))
    /\ [][\A j \in Jobs :
          /\ BgFails(j) =>
                /\ tr'[j] = tr[j]
                /\ Column(segments', "text_content") = Column(segments, "text_content")
                /\ \A p \in DOMAIN files :
                      p \in DOMAIN files' /\
                      (p \notin {jobs[j].bg_output_path, TempVideoPath(jobs[j].bg_output_path)}
                          => files'[p] = files[p])
          /\ TrFails(j) =>
                /\ bg'[j] = bg[j]
                /\ Column(segments', "video_path") = Column(segments, "video_path")
                /\ files' = files]_vars

\* C4 witness: the compositor branch failed after the transcription branch
\* stored its text, and the text is still there
FailedBesideCommittedSibling ==
    \E j \in Jobs :
        /\ bg[j].pc = "done" /\ bg[j].logged
        /\ tr[j].pc = "done" /\ tr[j].success
        /\ RowExists(j) /\ RowOf(j).text_content = Spoken(j)

\* C5: when the service returns a status other than "completed", the
\* transcription branch ends without touching text_content; the compositor
\* branch of the same job can still take each of its steps, and when it has
\* succeeded its path is in video_path.
IncompleteTranscriptionLeavesText ==
    \A j \in Jobs :
        tr[j].status \notin {"none", "completed"} =>
            /\ tr[j].pc = "done" /\ ~tr[j].success /\ tr[j].logged /\ ~tr[j].raised
            /\ Pending(bg[j]) => ENABLED BgStep(j)
            /\ (RowExists(j) /\ OnlyJobOn(j)) =>
                  /\ RowOf(j).text_content = jobs[j].row_at_submit[1].text_content
                  /\ (bg[j].pc = "done" /\ bg[j].error = "none")
                        => RowOf(j).video_path = JobRelPath(j)

\* C5 witness: the transcription came back with status "error" and the
\* compositor's path is in the row
IncompleteBesideComposited ==
    \E j \in Jobs :
        /\ tr[j].status = "error" /\ tr[j].pc = "done"
        /\ RowExists(j) /\ RowOf(j).video_path = JobRelPath(j)

OtherFields == {"episode_id", "segment_type", "order_index", "audio_path",
                "raw_audio_path", "raw_video_path", "duration"}

\* this step commits the path of job j's compositor, which succeeded
BgCommits(j) ==
    /\ bg[j].pc = "commit" /\ bg[j].error = "none" /\ bg'[j].pc = "done"
    /\ bg'[j].error = "none"

\* this step commits the text of job j's transcription, which succeeded
TrCommits(j) == tr[j].pc = "commit" /\ tr[j].success /\ tr'[j].pc = "done"

\* C6: a step of a pipeline task creates and deletes no row and changes no
\* column but video_path and text_content; video_path changes only in the
\* commit of a compositor branch that succeeded, to that job's output path,
\* and text_content only in the commit of a transcription branch that
\* succeeded, to that job's text; a step of the transcode task changes nothing.
PipelineWritesOnlyItsFields ==
    [][pipelineVars' # pipelineVars =>
          /\ DOMAIN segments' = DOMAIN segments
          /\ \A f \in OtherFields : Column(segments', f) = Column(segments, f)
          /\ \A s \in DOMAIN segments :
                /\ segments'[s].video_path # segments[s].video_path =>
                      \E j \in Jobs : /\ BgCommits(j) /\ jobs[j].segment_id = s
                                      /\ segments'[s].video_path = JobRelPath(j)
                /\ segments'[s].text_content # segments[s].text_content =>
                      \E j \in Jobs : /\ TrCommits(j) /\ jobs[j].segment_id = s
                                      /\ segments'[s].text_content = tr[j].text
          /\ conv' # conv => segments' = segments]_vars

\* C6 witness: both columns were written and the rest of the row is as it was
OnlyTwoColumnsWritten ==
    \E j \in Jobs :
        /\ RowExists(j)
        /\ RowOf(j).video_path = JobRelPath(j)
        /\ RowOf(j).text_content = Spoken(j)
        /\ \A f \in OtherFields : RowOf(j)[f] = InitialRow(jobs[j].segment_id)[f]

\* C7 as claimed: a branch whose segment was deleted, before or during its
\* write, ends without an error, and the other rows are as they were created.
LateWriteIsSilentNoOp ==
    \A j \in Jobs :
        (Submitted(j) /\ ~RowExists(j)) =>
            /\ ~tr[j].raised
            /\ bg[j].error # "stale"
            /\ \A s \in DOMAIN segments : segments[s] = InitialRow(s)

\* call k of upload_video answered 201
Accepted(k) == k \in DOMAIN calls /\ calls[k].status = 201

\* C8 as claimed: after an accepted upload, a later upload for the same
\* segment stores its video under another name, and the file of the earlier
\* one is still there and still holds what the earlier upload produced.
ResubmissionKeepsBothFiles ==
    \A k1, k2 \in DOMAIN calls :
        (k1 < k2 /\ Accepted(k1) /\ calls[k2].status # 404
            /\ calls[k1].segment_id = calls[k2].segment_id) =>
                /\ Accepted(k2) => calls[k1].video_path # calls[k2].video_path
                /\ calls[k1].video_path \in DOMAIN files
                /\ files[calls[k1].video_path].by = <<"call", k1>>

CompositorErrors == {"dimensions", "background", "frame", "mux"}

\* C9: a compositor branch that failed (invalid dimensions, missing background
\* image, frame-processing error, mux error) has logged the failure and ended,
\* no row holds its output path, and its segment's video_path is the one from
\* before the job; a row holds a job's output path only if that job's
\* compositor returned without an exception.
FailedCompositingPersistsNothing ==
    \A j \in Jobs :
        /\ bg[j].error \in CompositorErrors =>
              /\ bg[j].pc = "done" /\ bg[j].logged
              /\ \A s \in DOMAIN segments : segments[s].video_path # JobRelPath(j)
              /\ (RowExists(j) /\ OnlyJobOn(j)) =>
                    RowOf(j).video_path = jobs[j].row_at_submit[1].video_path
        /\ Submitted(j) =>
              \A s \in DOMAIN segments :
                  segments[s].video_path = JobRelPath(j) =>
                      bg[j].pc = "done" /\ bg[j].error = "none"

\* C9 witness: muxing failed, and the row of the job is still there
MuxFailureReported ==
    \E j \in Jobs : bg[j].error = "mux" /\ bg[j].logged /\ RowExists(j)

\* C10 as claimed: when a read of the frame loop fails before the end of the
\* stream, the compositor branch reports a failure, no final output exists
\* and no row holds the job's output path.
DecodeErrorFailsJob ==
    \A j \in Jobs :
        bg[j].truncated =>
            /\ bg[j].error # "none"
            /\ jobs[j].bg_output_path \notin DOMAIN files
            /\ \A s \in DOMAIN segments : segments[s].video_path # JobRelPath(j)

\* job j's compositor has run
Composited(j) == bg[j].pc \in {"lookup", "commit", "done"}

\* C11 as claimed: once remove_background_from_video has returned or raised,
\* whatever the point of failure, the file <output>.video_only.mp4 does not
\* exist.
TempFileGoneOnEveryExit ==
    \A j \in Jobs :
        Composited(j) => TempVideoPath(jobs[j].bg_output_path) \notin DOMAIN files

\* the capture of run v reports no width or no height
ZeroDimensions(v) == v.width = 0 \/ v.height = 0

\* C12: for every run on a video whose capture reports zero width or zero
\* height, the compositor fails with the invalid-dimensions error, the task
\* logs it and ends, and the file system is as it was: neither the final
\* output nor the video-only temporary file exists.
ZeroDimensionsWriteNothing ==
    [][\A j \in Jobs : \A v \in CompositorRuns :
          (ZeroDimensions(v) /\ BgRun(j, v)) =>
              /\ bg'[j].error = "dimensions" /\ bg'[j].pc = "done" /\ bg'[j].logged
              /\ files' = files
              /\ jobs[j].bg_output_path \notin DOMAIN files'
              /\ TempVideoPath(jobs[j].bg_output_path) \notin DOMAIN files']_vars

\* C12 witness: a compositor run ended with the invalid-dimensions error and
\* left the two files of the job's input and nothing else
DimensionsErrorLeftNoFile ==
    \E j \in Jobs :
        /\ bg[j].error = "dimensions" /\ bg[j].pc = "done"
        /\ DOMAIN files = {jobs[j].input_path, jobs[j].output_path}

\* run v is on a valid (video, background image) pair: the capture reports
\* the dimensions, the image loads and every frame of the stream decodes and
\* composites
ValidPair(v) ==
    /\ v.width > 0 /\ v.height > 0 /\ v.bg_ok
    /\ \A i \in DOMAIN v.reads : v.reads[i] = "ok"

\* the frames 1 .. n in presentation order
FramesInOrder(n) == [i \in 1 .. n |-> i]

\* C13: for every run on a valid (video, background image) pair the frame
\* loop appends one composited frame per input frame, in the order of the
\* input, and when the mux step works the output video holds exactly those
\* frames: as many as the input, with or without an audio track.
OneFramePerInputFrame ==
    [][\A j \in Jobs : \A v \in CompositorRuns :
          (ValidPair(v) /\ BgRun(j, v)) =>
              /\ bg'[j].frames = FramesInOrder(Len(v.reads))
              /\ ~bg'[j].truncated
              /\ v.mux = "ok" =>
                    /\ bg'[j].error = "none"
                    /\ jobs[j].bg_output_path \in DOMAIN files'
                    /\ files'[jobs[j].bg_output_path].frames = FramesInOrder(Len(v.reads))]_vars

\* C13 witness: a composited output with an audio track that holds every
\* frame of a MaxFrames-frame input
AllFramesComposited ==
    \E j \in Jobs :
        /\ bg[j].error = "none" /\ Composited(j)
        /\ jobs[j].bg_output_path \in DOMAIN files
        /\ files[jobs[j].bg_output_path].kind = "composited"
        /\ files[jobs[j].bg_output_path].frames = FramesInOrder(MaxFrames)

\* C14 as claimed: the call that accepts an upload answers without waiting
\* for the transcode, the clip reading or the transcription, so no answer to
\* a call for an existing segment reports a failure of one of them.
UploadAnswerIgnoresPipeline ==
    \A k \in DOMAIN calls : calls[k].status \in {201, 404}

\* call k of upload_video stored a .webm upload and its ffmpeg run failed
TranscodeFailedIn(k) ==
    /\ calls[k].status = 500
    /\ calls[k].video_path = calls[k].upload_path
    /\ Lower(calls[k].upload_path[Len(calls[k].upload_path)]) = ".webm"

\* C15 as claimed: after a transcoding failure the raw uploaded file is still
\* on disk.
RawUploadRetained ==
    \A k \in DOMAIN calls :
        (k = Len(calls) /\ TranscodeFailedIn(k)) => calls[k].upload_path \in DOMAIN files

\* C16 as claimed: when transcribe_audio reported success and the task has
\* ended without an exception, the row of the job, if it still exists, holds
\* the recognized text, whatever that text is.
EveryRecognizedTextPersisted ==
    \A j \in Jobs :
        (tr[j].pc = "done" /\ tr[j].success /\ ~tr[j].raised /\ RowExists(j) /\ OnlyJobOn(j))
            => RowOf(j).text_content = tr[j].text

\* C17: one invocation of transcribe_audio makes at most one request to the
\* service, and none without a key; a request that raised or came back with a
\* status other than "completed" is returned as a failure: the task logs it
\* and ends without another request and without a text.
ClientSendsOneRequest ==
    \A j \in Jobs :
        /\ tr[j].requests \in {0, 1}
        /\ (tr[j].requests = 1 /\ tr[j].status # "completed") =>
              /\ ~tr[j].success /\ tr[j].text = None
              /\ tr[j].pc = "done" /\ tr[j].logged
        /\ (Started(tr[j]) /\ tr[j].requests = 0) =>
              ~tr[j].success /\ tr[j].message = "AssemblyAI API key not configured"

\* C17 witness: the one request of a job raised and the task ended in failure
RequestFailedOnce ==
    \E j \in Jobs :
        /\ tr[j].requests = 1 /\ tr[j].message = "Error during transcription"
        /\ tr[j].pc = "done" /\ ~tr[j].success

\* the files of job j's compositor that are neither its input nor its output
StrayFiles(j) ==
    {p \in DOMAIN files : files[p].by = <<"job", j>> /\ files[p].kind = "video_only"
                              /\ p # jobs[j].bg_output_path}

\* C18 as claimed: when the background-removal task has ended, on success or
\* on any failure, the compositor has released every handle it acquired and
\* has left no temporary file.
TaskExitReleasesEverything ==
    \A j \in Jobs :
        bg[j].pc = "done" =>
            /\ StrayFiles(j) = {}
            /\ UnreleasedOnExit(bg[j].error) = {}

----------------------------------------------------------------------------
(* The pipeline under fair scheduling of the workers. *)

\* a step of job j's transcode task
ConvStep(j) ==
    \/ ConvertStart(j)
    \/ \E encoder \in EncoderOutcomes : ConvertFinish(j, encoder)

\* A worker eventually picks up a task that is queued, and a task that is
\* running eventually takes its next step: ffmpeg exits, the service answers,
\* the compositor returns or raises, the session's query and commit return.
WorkersAreFair ==
    \A j \in Jobs : WF_vars(ConvStep(j)) /\ WF_vars(TrStep(j)) /\ WF_vars(BgStep(j))

SpecFair == Init /\ [][Next]_vars /\ WorkersAreFair

\* job j is Failed, or both of its fan-out branches have reported
Settled(j) ==
    \/ conv[j].state = "failed"
    \/ tr[j].pc = "done" /\ bg[j].pc = "done"

\* C19: under fair scheduling of the workers every submitted MediaJob
\* eventually is Failed or has both fan-out branches reported (each ended in
\* success or in failure), and when one branch has ended in failure the
\* other still ends.
EveryJobSettles ==
    \A j \in Jobs :
        /\ Submitted(j) ~> Settled(j)
        /\ (bg[j].pc = "done" /\ bg[j].logged) ~> (tr[j].pc = "done")
        /\ (tr[j].pc = "done" /\ (tr[j].logged \/ tr[j].raised)) ~> (bg[j].pc = "done")

\* C19 witness: both branches of a job have reported, each a failure
BothBranchesReportedFailure ==
    \E j \in Jobs :
        /\ conv[j].state = "succeeded"
        /\ tr[j].pc = "done" /\ tr[j].logged
        /\ bg[j].pc = "done" /\ bg[j].logged

\* the uploaded file's name makes upload_video run the encoder
NeedsConversion(ext) == Lower(ext) \in {"", ".webm"}

\* C20 as claimed: wherever the code runs the encoder, a file already at the
\* output path is overwritten and does not make the run fail; so a .webm
\* upload for an existing segment, with an encoder and a clip reader that
\* work, is accepted and leaves at the .mp4 path the file this call encoded.
EncoderOverwritesOutput ==
    [][\A sid \in SegmentIds, ext \in Extensions, key \in BOOLEAN :
          \A reply \in ServiceReplies(Len(calls) + 1) :
              (/\ NeedsConversion(ext)
               /\ QuerySegment(segments, EpisodeOf(sid), sid) # <<>>
               /\ upload_video(EpisodeOf(sid), sid, ext, "ok", TRUE, key, reply)) =>
                  LET k == Len(calls')
                  IN /\ calls'[k].status = 201
                     /\ calls'[k].video_path \in DOMAIN files'
                     /\ files'[calls'[k].video_path].by = <<"call", k>>]_vars

\* the messages of the three failures transcribe_audio returns
FailureMessages ==
    {"AssemblyAI API key not configured", "Transcription failed with status",
     "Error during transcription"}

\* C21: what transcribe_audio handed to the task is a (success, message,
\* text) triple, never an exception: success with the recognized text exactly
\* when the service answered with status "completed"; otherwise failure with
\* no text and the message of the case: no key (and then no request), another
\* status, or a request that raised.
TranscribeReturnsTriple ==
    \A j \in Jobs :
        Started(tr[j]) =>
            /\ tr[j].success \in BOOLEAN
            /\ tr[j].success <=> tr[j].status = "completed"
            /\ tr[j].success =>
                  /\ tr[j].text \in {<<"">>, Spoken(j)}
                  /\ tr[j].message = "Transcription completed successfully"
            /\ ~tr[j].success =>
                  /\ tr[j].text = None
                  /\ tr[j].message \in FailureMessages
                  /\ tr[j].pc = "done" /\ ~tr[j].raised
            /\ tr[j].message = "AssemblyAI API key not configured" <=> tr[j].requests = 0
            /\ tr[j].message = "Transcription failed with status" <=>
                  tr[j].status \notin {"none", "completed"}

\* C21 witness: the service answered with the status "error" and the call
\* returned the failure triple of that case
StatusErrorReturnedAsFailure ==
    \E j \in Jobs :
        /\ tr[j].status = "error" /\ ~tr[j].success /\ tr[j].text = None
        /\ tr[j].message = "Transcription failed with status"

\* path p has a component "episodes" with something after it
HasEpisodes(p) == \E i \in 1 .. Len(p) - 1 : p[i] = "episodes"

\* st is what is left of p when a prefix with no "episodes" in it is cut off
SuffixFromFirstEpisodes(st, p) ==
    /\ Len(st) >= 2 /\ st[1] = "episodes"
    /\ \E n \in 0 .. Len(p) - 2 :
          /\ p = SubSeq(p, 1, n) \o st
          /\ \A i \in 1 .. n : p[i] # "episodes"

\* C22: when the compositor branch succeeded and its row is still there,
\* video_path holds the output path cut at its first "/episodes/": the suffix
\* that starts with that component when the path has one, and the whole
\* output path when it has none.
StoredPathIsEpisodeRelative ==
    \A j \in Jobs :
        (bg[j].pc = "done" /\ bg[j].error = "none" /\ RowExists(j) /\ OnlyJobOn(j)) =>
            IF HasEpisodes(jobs[j].bg_output_path)
            THEN SuffixFromFirstEpisodes(RowOf(j).video_path, jobs[j].bg_output_path)
            ELSE RowOf(j).video_path = jobs[j].bg_output_path

\* C22 witness: a path with two "episodes" was stored from the first one on
StoredFromFirstOfTwo ==
    \E j \in Jobs :
        /\ bg[j].pc = "done" /\ bg[j].error = "none" /\ RowExists(j)
        /\ jobs[j].bg_output_path[1] = "srv"
        /\ RowOf(j).video_path = SubSeq(jobs[j].bg_output_path, 2, Len(jobs[j].bg_output_path))

\* C23: a compositor run that returns leaves, of the files it made, exactly
\* the final output: the video-only temporary file is gone and every other
\* file is as it was.  With an audio track the output is the muxed file with
\* the frames of the video-only stream; without one it is the video-only
\* file itself under the output's name.
SuccessLeavesOnlyOutput ==
    [][\A j \in Jobs : \A v \in CompositorRuns :
          (BgRun(j, v) /\ bg'[j].error = "none") =>
              LET out == jobs[j].bg_output_path
              IN /\ DOMAIN files' = DOMAIN files \cup {out}
                 /\ TempVideoPath(out) \notin DOMAIN files'
                 /\ \A p \in DOMAIN files : p # out => files'[p] = files[p]
                 /\ files'[out].frames = bg'[j].frames
                 /\ files'[out].kind = IF v.audio THEN "composited" ELSE "video_only"]_vars

\* C23 witness: a run on a source without audio left the video-only stream
\* under the output's name and no temporary file
RenamedWithoutAudio ==
    \E j \in Jobs :
        /\ Composited(j) /\ bg[j].error = "none"
        /\ jobs[j].bg_output_path \in DOMAIN files
        /\ files[jobs[j].bg_output_path].kind = "video_only"
        /\ TempVideoPath(jobs[j].bg_output_path) \notin DOMAIN files

\* C24: for every run whose background image does not decode, the compositor
\* raises before it reads a frame and before it creates a file: the
\* invalid-dimensions error when the capture also reports a zero width or
\* height (that check comes first), the background-image error otherwise.
BackgroundCheckedAfterDimensions ==
    [][\A j \in Jobs : \A v \in CompositorRuns :
          (~v.bg_ok /\ BgRun(j, v)) =>
              /\ bg'[j].error = IF ZeroDimensions(v) THEN "dimensions" ELSE "background"
              /\ bg'[j].pc = "done" /\ bg'[j].logged
              /\ bg'[j].frames = <<>> /\ ~bg'[j].truncated
              /\ files' = files]_vars

\* C24 witness: a run ended with the background-image error and the file
\* system holds the job's input files and nothing else
BackgroundErrorLeftNoFile ==
    \E j \in Jobs :
        /\ bg[j].error = "background" /\ bg[j].pc = "done" /\ bg[j].frames = <<>>
        /\ DOMAIN files = {jobs[j].input_path, jobs[j].output_path}

\* call k is the latest accepted upload for its segment
LatestAccepted(k) ==
    /\ Accepted(k)
    /\ \A k2 \in DOMAIN calls :
          (k2 > k /\ calls[k2].segment_id = calls[k].segment_id) => ~Accepted(k2)

\* C26 as claimed: the video_path an accepted upload committed to a row that
\* still exists keeps naming the file that upload stored, whatever later
\* calls for the segment did, the ones that failed included.
PersistedVideoPathKeepsItsFile ==
    \A k \in DOMAIN calls :
        (/\ LatestAccepted(k)
         /\ calls[k].segment_id \in DOMAIN segments
         /\ segments[calls[k].segment_id].video_path = calls[k].relative) =>
            /\ calls[k].video_path \in DOMAIN files
            /\ files[calls[k].video_path].by = <<"call", k>>

\* C27 as claimed: when the latest call ended with the response 500, no file
\* that call wrote, neither the upload nor the converted .mp4, is on disk,
\* and the rows are as they were before the call.
FailedUploadLeavesNothing ==
    [][\A k \in DOMAIN calls' :
          (k = Len(calls) + 1 /\ calls'[k].status = 500) =>
              /\ segments' = segments
              /\ \A p \in DOMAIN files' : files'[p].by # <<"call", k>>]_vars

\* C28 as claimed: when two jobs were submitted for one segment and all four
\* of their branch tasks have returned after committing, the row's video_path
\* and text_content are both those of the job submitted last.
LastSubmittedJobWins ==
    (/\ Submitted(1) /\ Submitted(2)
     /\ jobs[1].segment_id = jobs[2].segment_id
     /\ BothBranchesCommitted(1) /\ BothBranchesCommitted(2)
     /\ RowExists(2)) =>
        /\ RowOf(2).video_path = JobRelPath(2)
        /\ RowOf(2).text_content = Spoken(2)

\* the ids job j was called with name no row: the segment is of another episode
Mismatched(j) == jobs[j].episode_id # EpisodeOf(jobs[j].segment_id)

\* the session of a task's update function is open only between its query
\* and its commit
SessionOpenOnlyInside(task) ==
    /\ task.pc \in {"lookup", "commit"} => task.session = "open"
    /\ task.pc \in {"none", "queued"} => task.session = "none"
    /\ task.pc = "done" => task.session \in {"none", "closed"}

\* C29: update_segment_video_path and update_segment_text_content change a row
\* only when, at their query, a row has both the episode id and the segment id
\* they were given, and then only that row; called with a segment of another
\* episode they leave every row as it was; and whether the row was found, was
\* not found, or the commit raised, the session they opened is closed when
\* they are left.
UpdateNeedsBothIds ==
    /\ [](\A j \in Jobs :
            /\ SessionOpenOnlyInside(tr[j]) /\ SessionOpenOnlyInside(bg[j])
            /\ (Submitted(j) /\ Mismatched(j)) =>
                  /\ \A s \in DOMAIN segments : segments[s] = InitialRow(s)
                  /\ tr[j].pc # "commit" /\ bg[j].pc # "commit")
    /\ [][\A s \in DOMAIN segments' :
             segments'[s] # segments[s] =>
                 \E j \in Jobs :
                     /\ jobs[j].segment_id = s
                     /\ segments[s].episode_id = jobs[j].episode_id
                     /\ TrCommit(j) \/ BgCommit(j)
                     /\ \A s2 \in DOMAIN segments' \ {s} : segments'[s2] = segments[s2]]_vars

\* C29 witness: both update functions were called with a segment of another
\* episode and returned with their sessions closed, the rows unchanged
MismatchedCallsReturned ==
    \E j \in Jobs :
        /\ Submitted(j) /\ Mismatched(j)
        /\ tr[j].pc = "done" /\ tr[j].session = "closed"
        /\ bg[j].pc = "done" /\ bg[j].session = "closed"
        /\ \A s \in SegmentIds : s \in DOMAIN segments /\ segments[s] = InitialRow(s)

Min(a, b) == IF a <= b THEN a ELSE b

Max(a, b) == IF a >= b THEN a ELSE b

\* C25 as claimed: the composited channel is the frame's pixel when alpha is 1,
\* the background's pixel when alpha is 0, and for every alpha in [0, 1] a
\* value of 0..255 between the two.
CompositeBetweenPixels ==
    (frame # NoFrame /\ frame.composite # NoFrame.composite) =>
        /\ frame.alpha = 2^AlphaBits => frame.composite = frame.foreground
        /\ frame.alpha = 0 => frame.composite = frame.background
        /\ frame.composite \in 0 .. MaxPixel
        /\ Min(frame.foreground, frame.background) <= frame.composite
        /\ frame.composite <= Max(frame.foreground, frame.background)

====
